---- MODULE Spec2Model ----
(***************************************************************************)
(* A model of tfatool/command.py: the command.cgi client of a FlashAir     *)
(* card.  Text is modelled character by character (a string is a sequence  *)
(* of one-character strings), so that splitting, integer parsing and path  *)
(* joining are computed as the code computes them.                         *)
(***************************************************************************)
EXTENDS Integers, Sequences, FiniteSets, TLC

(***************************************************************************)
(* Text primitives (Python str methods and builtins used by command.py)    *)
(***************************************************************************)

SLASH == <<"/">>
COMMA == <<",">>
CRLF == <<"\r", "\n">>

Digits == {"0", "1", "2", "3", "4", "5", "6", "7", "8", "9"}
Whitespace == {" ", "\t", "\n", "\r"}

DigitVal(c) ==
  CASE c = "0" -> 0 [] c = "1" -> 1 [] c = "2" -> 2 [] c = "3" -> 3
    [] c = "4" -> 4 [] c = "5" -> 5 [] c = "6" -> 6 [] c = "7" -> 7
    [] c = "8" -> 8 [] c = "9" -> 9

\* str.startswith('/')
StartsWithSlash(s) == Len(s) > 0 /\ s[1] = "/"

HasPrefixAt(s, i, sep) ==
  /\ i + Len(sep) - 1 <= Len(s)
  /\ SubSeq(s, i, i + Len(sep) - 1) = sep

\* str.split(sep): the pieces between the occurrences of sep, scanned left to
\* right; a text with no sep is one piece, the empty text is one empty piece.
RECURSIVE SplitFrom(_, _, _, _)
SplitFrom(s, sep, i, cur) ==
  IF i > Len(s) THEN <<cur>>
  ELSE IF HasPrefixAt(s, i, sep)
       THEN <<cur>> \o SplitFrom(s, sep, i + Len(sep), <<>>)
       ELSE SplitFrom(s, sep, i + 1, Append(cur, s[i]))

Split(s, sep) == SplitFrom(s, sep, 1, <<>>)

\* sep.join(parts)
RECURSIVE Join(_, _)
Join(parts, sep) ==
  IF parts = <<>> THEN <<>>
  ELSE IF Len(parts) = 1 THEN parts[1]
  ELSE parts[1] \o sep \o Join(Tail(parts), sep)

RECURSIVE LStrip(_)
LStrip(s) == IF s # <<>> /\ s[1] \in Whitespace THEN LStrip(Tail(s)) ELSE s

RECURSIVE RStrip(_)
RStrip(s) ==
  IF s # <<>> /\ s[Len(s)] \in Whitespace
  THEN RStrip(SubSeq(s, 1, Len(s) - 1)) ELSE s

RECURSIVE DigitsValue(_, _)
DigitsValue(s, acc) ==
  IF s = <<>> THEN acc ELSE DigitsValue(Tail(s), 10 * acc + DigitVal(s[1]))

AllDigits(s) == s # <<>> /\ \A i \in 1..Len(s) : s[i] \in Digits

\* int(text): surrounding whitespace is stripped, one optional sign, then one
\* or more decimal digits; anything else raises ValueError (ok = FALSE).
ParseInt(text) ==
  LET t == RStrip(LStrip(text))
      signed == t # <<>> /\ t[1] \in {"+", "-"}
      body == IF signed THEN Tail(t) ELSE t
  IN IF AllDigits(body)
     THEN [ok |-> TRUE,
           val |-> IF signed /\ t[1] = "-" THEN 0 - DigitsValue(body, 0)
                   ELSE DigitsValue(body, 0)]
     ELSE [ok |-> FALSE, val |-> 0]

\* The decimal text of a natural number (what the device prints).
RECURSIVE ToDec(_)
ToDec(n) ==
  LET d == <<"0", "1", "2", "3", "4", "5", "6", "7", "8", "9">>
  IN IF n < 10 THEN <<d[n + 1]>> ELSE Append(ToDec(n \div 10), d[(n % 10) + 1])

(***************************************************************************)
(* str(PurePosixPath(directory, filename))                                 *)
(***************************************************************************)

\* Joining the segments: a segment that starts with '/' discards what
\* precedes it; otherwise segments are joined with one separator.
PosixJoin(directory, filename) ==
  IF StartsWithSlash(filename) THEN filename
  ELSE IF directory = <<>> THEN filename
  ELSE IF directory[Len(directory)] = "/" THEN directory \o filename
  ELSE directory \o SLASH \o filename

\* The root of a joined path: '//' for exactly two leading slashes, '/' for
\* one or for three and more, none for a relative path.
PathRoot(s) ==
  IF ~StartsWithSlash(s) THEN <<>>
  ELSE IF Len(s) >= 2 /\ s[2] = "/" /\ ~(Len(s) >= 3 /\ s[3] = "/")
       THEN <<"/", "/">>
       ELSE SLASH

\* The components: empty ones and '.' are dropped.
PathParts(s) == SelectSeq(Split(s, SLASH), LAMBDA p : p # <<>> /\ p # <<".">>)

PurePosixPathStr(directory, filename) ==
  LET s == PosixJoin(directory, filename)
      root == PathRoot(s)
      parts == PathParts(s)
  IN IF root = <<>> /\ parts = <<>> THEN <<".">>
     ELSE root \o Join(parts, SLASH)

(***************************************************************************)
(* Response decoding: _decode_time, _decode_attribute, _split_file_list    *)
(***************************************************************************)

IsLeap(year) == (year % 4 = 0 /\ year % 100 # 0) \/ year % 400 = 0

DaysInMonth(year, month) ==
  IF month = 2 THEN (IF IsLeap(year) THEN 29 ELSE 28)
  ELSE IF month \in {4, 6, 9, 11} THEN 30 ELSE 31

NoTime ==
  [year |-> 0, month |-> 0, day |-> 0, hour |-> 0, minute |-> 0,
   second |-> 0, tzinfo |-> "none"]

\* arrow.get(year, month, day, hour, minute, second, tzinfo=...): a timestamp,
\* or ValueError when the fields are no calendar date and time of day.
ArrowGet(year, month, day, hour, minute, second, tz) ==
  IF /\ year \in 1..9999
     /\ month \in 1..12
     /\ day >= 1 /\ day <= DaysInMonth(year, month)
     /\ hour \in 0..23
     /\ minute \in 0..59
     /\ second \in 0..59
  THEN [exc |-> "",
        val |-> [year |-> year, month |-> month, day |-> day, hour |-> hour,
                 minute |-> minute, second |-> second, tzinfo |-> tz]]
  ELSE [exc |-> "ValueError", val |-> NoTime]

Max(a, b) == IF a >= b THEN a ELSE b
Min(a, b) == IF a <= b THEN a ELSE b

\* The clamped retry of the except branch of _decode_time.
ClampedRetry(year, month, day, hour, minute, second) ==
  ArrowGet(Max(1980, year), Min(Max(1, month), 12), Max(1, day),
           hour, minute, second, "utc")

\* _decode_time(date_val, time_val): the value returned, or the exception
\* that leaves the function.
_decode_time(date_val, time_val) ==
  LET year == (date_val \div 512) + 1980
      month == (date_val \div 32) % 16
      day == date_val % 32
      hour == time_val \div 2048
      minute == (time_val \div 32) % 64
      second == (time_val % 32) * 2
      first == ArrowGet(year, month, day, hour, minute, second, "local")
  IN IF first.exc = "" THEN first
     ELSE ClampedRetry(year, month, day, hour, minute, second)

\* bool(attr_val & (1 << bit))
BitSet(attr_val, bit) == (attr_val \div (2 ^ bit)) % 2 = 1

_decode_attribute(attr_val) ==
  [archive |-> BitSet(attr_val, 5),
   directly |-> BitSet(attr_val, 4),
   volume |-> BitSet(attr_val, 3),
   system_file |-> BitSet(attr_val, 2),
   hidden_file |-> BitSet(attr_val, 1),
   read_only |-> BitSet(attr_val, 0)]

FileInfo(directory, filename, path, size, attribute, datetime) ==
  [directory |-> directory, filename |-> filename, path |-> path,
   size |-> size, attribute |-> attribute, datetime |-> datetime]

RawFileInfo(directory, filename, path, size) ==
  [directory |-> directory, filename |-> filename, path |-> path,
   size |-> size]

NoFile == FileInfo(<<>>, <<>>, <<>>, 0, _decode_attribute(0), NoTime)
NoRawFile == RawFileInfo(<<>>, <<>>, <<>>, 0)

\* Whether a line is taken as a record: line.split(",") has six groups.
IsRecordLine(line) == Len(Split(line, COMMA)) = 6

\* One iteration of the loop of _split_file_list on a line: the line is
\* skipped, an entry is produced, or int() or _decode_time raise.
_split_file_list(line) ==
  LET groups == Split(line, COMMA) IN
  IF ~IsRecordLine(line)
  THEN [kind |-> "skip", entry |-> NoFile]
  ELSE LET size == ParseInt(groups[3])
           attr_val == ParseInt(groups[4])
           date_val == ParseInt(groups[5])
           time_val == ParseInt(groups[6])
       IN IF ~(size.ok /\ attr_val.ok /\ date_val.ok /\ time_val.ok)
          THEN [kind |-> "raise", entry |-> NoFile]
          ELSE LET timeinfo == _decode_time(date_val.val, time_val.val) IN
               IF timeinfo.exc # ""
               THEN [kind |-> "raise", entry |-> NoFile]
               ELSE [kind |-> "entry",
                     entry |-> FileInfo(groups[1], groups[2],
                                  PurePosixPathStr(groups[1], groups[2]),
                                  size.val, _decode_attribute(attr_val.val),
                                  timeinfo.val)]

\* One iteration of the loop of _split_file_list_raw on a line.
_split_file_list_raw(line) ==
  LET groups == Split(line, COMMA) IN
  IF ~IsRecordLine(line)
  THEN [kind |-> "skip", entry |-> NoRawFile]
  ELSE LET size == ParseInt(groups[3]) IN
       IF ~size.ok
       THEN [kind |-> "raise", entry |-> NoRawFile]
       ELSE [kind |-> "entry",
             entry |-> RawFileInfo(groups[1], groups[2],
                          PurePosixPathStr(groups[1], groups[2]), size.val)]

(***************************************************************************)
(* The device behind cgi.send: a FAT tree and the way the card prints it   *)
(***************************************************************************)

\* The deepest directory of the generated chain of nested directories.
MaxDepth == 2

\* The year codes (years since 1980) of the date codes handed to _decode_time.
MaxYearCode == 4

FatDate(year, month, day) == (year - 1980) * 512 + month * 32 + day
FatTime(hour, minute, second) == hour * 2048 + minute * 32 + (second \div 2)

GoodDate == FatDate(2024, 2, 29)
GoodTime == FatTime(12, 30, 10)

\* Attribute codes: archive is bit 5, directory is bit 4.
FileAttr == 32
DirAttr == 16

Node(dir, name, size, attr, date, time) ==
  [dir |-> dir, name |-> name, size |-> size, attr |-> attr,
   date |-> date, time |-> time]

File(dir, name, size) == Node(dir, name, size, FileAttr, GoodDate, GoodTime)
Dir(dir, name) == Node(dir, name, 0, DirAttr, GoodDate, GoodTime)

NameA == <<"a">>
NameB == <<"b">>
NameC == <<"c">>
NameD == <<"d">>
NameR == <<"r">>
NameS == <<"s">>
NameT == <<"t">>

\* A root holding one file and one subdirectory that holds one file.
FsExample == << File(<<>>, NameA, 3), Dir(<<>>, NameR), File(<<NameR>>, NameB, 5) >>

\* Two levels with two directories on the first: breadth-first and
\* depth-first orders differ.  One file is empty, one is hidden and read-only.
FsWide ==
  << Dir(<<>>, NameR), File(<<>>, NameA, 3), Dir(<<>>, NameS),
     Dir(<<NameR>>, NameT), File(<<NameR>>, NameB, 5),
     File(<<NameR, NameT>>, NameC, 7),
     Node(<<NameS>>, NameD, 0, 35, GoodDate, GoodTime) >>

\* Timestamps that are no calendar date but that clamping repairs:
\* month 13 with day 0, and month 0.
FsClamped ==
  << Node(<<>>, NameA, 3, FileAttr, FatDate(1980, 13, 0), 0),
     Node(<<>>, NameR, 0, DirAttr, FatDate(1980, 0, 1), 0),
     File(<<NameR>>, NameB, 5) >>

\* A timestamp that clamping does not repair: 30 February, and hour 24.
FsCorrupt ==
  << File(<<>>, NameB, 5),
     Node(<<>>, NameA, 3, FileAttr, FatDate(1980, 2, 30), GoodTime),
     Dir(<<>>, NameR),
     Node(<<NameR>>, NameC, 7, FileAttr, GoodDate, FatTime(24, 0, 0)) >>

\* A chain of nested directories r/r/.../r, one file in each.
RECURSIVE Repeat(_, _)
Repeat(x, n) == IF n = 0 THEN <<>> ELSE <<x>> \o Repeat(x, n - 1)

RECURSIVE FsChainFrom(_)
FsChainFrom(k) ==
  IF k = MaxDepth THEN << File(Repeat(NameR, k), NameA, k + 1) >>
  ELSE << File(Repeat(NameR, k), NameA, k + 1), Dir(Repeat(NameR, k), NameR) >>
         \o FsChainFrom(k + 1)

FsChain == FsChainFrom(0)

FsNames == {"example", "wide", "clamped", "corrupt", "chain"}

Tree(fs) ==
  CASE fs = "example" -> FsExample
    [] fs = "wide" -> FsWide
    [] fs = "clamped" -> FsClamped
    [] fs = "corrupt" -> FsCorrupt
    [] fs = "chain" -> FsChain

\* How the card prints the directory field of NameA record: the absolute path,
\* the path without its leading separator, or (as FlashAir cards do) the
\* absolute path with the root printed as the empty text.
Styles == {"absolute", "relative", "flashair"}

\* Lines the card adds to the records of NameA listing.
Junk == {"none", "header", "sevenfields", "badsize", "badattr"}

Devices == [fs : FsNames, style : Styles, junk : Junk]

DirText(style, dir) ==
  IF dir = <<>> THEN (IF style = "absolute" THEN SLASH ELSE <<>>)
  ELSE IF style = "relative" THEN Join(dir, SLASH)
  ELSE SLASH \o Join(dir, SLASH)

RecordLine(style, n) ==
  Join(<< DirText(style, n.dir), n.name, ToDec(n.size), ToDec(n.attr),
          ToDec(n.date), ToDec(n.time) >>, COMMA)

RECURSIVE MapLines(_, _)
MapLines(style, nodes) ==
  IF nodes = <<>> THEN <<>>
  ELSE <<RecordLine(style, Head(nodes))>> \o MapLines(style, Tail(nodes))

\* The nodes of the directory that the text DIR names, in listing order.
Children(dev, DIR) ==
  SelectSeq(Tree(dev.fs), LAMBDA n : n.dir = PathParts(DIR))

JunkBefore(dev) ==
  IF dev.junk = "header" THEN << <<"W", "L", "A", "N">> >> ELSE <<>>

JunkAfter(dev) ==
  CASE dev.junk = "none" -> <<>>
    [] dev.junk = "header" -> << <<>> >>
    [] dev.junk = "sevenfields" ->
         << Join(<<SLASH, NameA, COMMA \o NameB, <<"1">>, <<"3", "2">>,
                   <<"0">>, <<"0">>>>, COMMA) >>
    [] dev.junk = "badsize" ->
         << Join(<<SLASH, NameA, <<"x">>, <<"3", "2">>, <<"0">>, <<"0">>>>,
                 COMMA) >>
    [] dev.junk = "badattr" ->
         << Join(<<SLASH, NameA, <<"1">>, <<>>, <<"0">>, <<"0">>>>, COMMA) >>

\* The text of the card'NameS answer to op=100 (list files) for DIR.
ListingText(dev, DIR) ==
  Join(JunkBefore(dev) \o MapLines(dev.style, Children(dev, DIR))
         \o JunkAfter(dev), CRLF)

\* The texts the card may answer to NameA scalar status request.
ScalarTexts ==
  { <<"1">>, <<"0">>, <<"0", "1">>, <<" ", "1">>, <<"-", "1">>, <<"2">>,
    <<"3">>, <<"4">>, <<"5">>, <<"6">>, <<"7">>, <<"1", "0">>,
    <<>>, <<"x">>, <<"1", "x">>, <<"1", ".", "0">> }

(***************************************************************************)
(* Enumerations of tfatool/info.py and the callers' filters                *)
(***************************************************************************)

Mode(enum, name, value) == [enum |-> enum, name |-> name, value |-> value]

WifiMode ==
  << Mode("WifiMode", "access_point", 0), Mode("WifiMode", "station", 2),
     Mode("WifiMode", "passthrough", 3) >>

WifiModeOnBoot ==
  << Mode("WifiModeOnBoot", "access_point", 4),
     Mode("WifiModeOnBoot", "station", 5),
     Mode("WifiModeOnBoot", "passthrough", 6) >>

NoMode == Mode("none", "none", 0 - 1)

\* The predicates a caller passes as *filters; each takes one record.
Filt(name, f) ==
  CASE name = "reject" -> FALSE
    [] name = "nonempty" -> f.size > 0
    [] name = "named_a" -> f.filename = NameA

FilterChoices ==
  { <<>>, <<"reject">>, <<"nonempty">>, <<"nonempty", "named_a">> }

RemoteDirs == { SLASH, NameR, SLASH \o NameR }

\* all(filt(f) for filt in filters)
PassesAll(filters, f) == \A i \in 1..Len(filters) : Filt(filters[i], f)

(***************************************************************************)
(* State                                                                   *)
(***************************************************************************)

VARIABLES
  device,        \* the card that the url argument of the call names
  call,          \* the operation called and its arguments
  pc,            \* where the call stands
  dirs_to_scan,  \* the work queue of list_files_recursive
  current_dir,   \* the directory being listed
  lines,         \* the lines of the response not yet iterated over
  response,      \* the text of the last response
  requests,      \* the requests sent so far, in order
  yielded,       \* the records the returned sequence has produced
  result         \* the value returned or the exception raised

vars ==
  << device, call, pc, dirs_to_scan, current_dir, lines, response, requests,
     yielded, result >>

NoCall ==
  [op |-> "none", filters |-> <<>>, remote_dir |-> <<>>,
   date_val |-> 0, time_val |-> 0]

NoResult == [exc |-> "", msg |-> "", val |-> "none"]

Returned(v) == [exc |-> "", msg |-> "", val |-> v]
Raised(exc, msg) == [exc |-> exc, msg |-> msg, val |-> "none"]

Request(op, DIR) == [op |-> op, DIR |-> DIR]

NoDevice == [fs |-> "none", style |-> "none", junk |-> "none"]

Init ==
  /\ device = NoDevice
  /\ call = NoCall
  /\ pc = "idle"
  /\ dirs_to_scan = <<>>
  /\ current_dir = <<>>
  /\ lines = <<>>
  /\ response = <<>>
  /\ requests = <<>>
  /\ yielded = <<>>
  /\ result = NoResult

(***************************************************************************)
(* list_files and list_files_raw                                           *)
(***************************************************************************)

ListingCall(op, filters, remote_dir) ==
  [NoCall EXCEPT !.op = op, !.filters = filters, !.remote_dir = remote_dir]

\* list_files(*filters, remote_dir, url): the body runs in the call, request
\* included; what is returned is a generator expression that has not started.
list_files(filters, remote_dir, url) ==
  /\ pc = "idle"
  /\ device' = url
  /\ call' = ListingCall("list_files", filters, remote_dir)
  /\ requests' = Append(requests, Request("list_files", remote_dir))
  /\ response' = ListingText(url, remote_dir)
  /\ lines' = Split(response', CRLF)
  /\ pc' = "created"
  /\ UNCHANGED << dirs_to_scan, current_dir, yielded, result >>

\* list_files_raw(*filters, remote_dir, url): as list_files.
list_files_raw(filters, remote_dir, url) ==
  /\ pc = "idle"
  /\ device' = url
  /\ call' = ListingCall("list_files_raw", filters, remote_dir)
  /\ requests' = Append(requests, Request("list_files", remote_dir))
  /\ response' = ListingText(url, remote_dir)
  /\ lines' = Split(response', CRLF)
  /\ pc' = "created"
  /\ UNCHANGED << dirs_to_scan, current_dir, yielded, result >>

\* The first request sent in the call, as a plain function would.
list_files_recursive_eager(filters, remote_dir, url) ==
  /\ pc = "idle"
  /\ device' = url
  /\ call' = ListingCall("list_files_recursive", filters, remote_dir)
  /\ requests' = Append(requests, Request("list_files", remote_dir))
  /\ response' = ListingText(url, remote_dir)
  /\ pc' = "created"
  /\ UNCHANGED << dirs_to_scan, current_dir, lines, yielded, result >>

\* list_files_recursive(*filters, remote_dir, url) is a generator function:
\* the call runs none of its body.
list_files_recursive(filters, remote_dir, url) ==
  /\ pc = "idle"
  /\ device' = url
  /\ call' = ListingCall("list_files_recursive", filters, remote_dir)
  /\ pc' = "created"
  /\ UNCHANGED << dirs_to_scan, current_dir, lines, response, requests,
                  yielded, result >>

Flat == call.op \in {"list_files", "list_files_raw"}
Recursive == call.op = "list_files_recursive"

\* The consumer is advancing a loop over the lines of a response.
Iterating ==
  \/ Flat /\ pc \in {"created", "iterating"}
  \/ Recursive /\ pc = "for"

IterPc == IF Recursive THEN "for" ELSE "iterating"

\* The decoder the operation iterates over.
Decode(line) ==
  IF call.op = "list_files_raw" THEN _split_file_list_raw(line)
  ELSE _split_file_list(line)

\* A line that is no record is passed over.
SkipLine ==
  /\ Iterating /\ lines # <<>>
  /\ Decode(Head(lines)).kind = "skip"
  /\ lines' = Tail(lines)
  /\ pc' = IterPc
  /\ UNCHANGED << device, call, dirs_to_scan, current_dir, response, requests,
                  yielded, result >>

\* int() or _decode_time raise: the exception leaves the decoder, the
\* operation's generator and reaches the consumer.
RaiseLine ==
  /\ Iterating /\ lines # <<>>
  /\ Decode(Head(lines)).kind = "raise"
  /\ lines' = Tail(lines)
  /\ pc' = "raised"
  /\ result' = Raised("ValueError", "decoding a record")
  /\ UNCHANGED << device, call, dirs_to_scan, current_dir, response, requests,
                  yielded >>

\* The condition of the generator expression of list_files.
ListFilesKeeps(filters, f) == ~f.attribute.directly /\ PassesAll(filters, f)

\* The condition of the generator expression of list_files_raw.
ListFilesRawKeeps(filters, f) == PassesAll(filters, f)

ListFilesEntry ==
  /\ call.op = "list_files" /\ Iterating /\ lines # <<>>
  /\ LET dec == Decode(Head(lines)) IN
     /\ dec.kind = "entry"
     /\ yielded' = IF ListFilesKeeps(call.filters, dec.entry)
                   THEN Append(yielded, dec.entry) ELSE yielded
  /\ lines' = Tail(lines)
  /\ pc' = "iterating"
  /\ UNCHANGED << device, call, dirs_to_scan, current_dir, response, requests,
                  result >>

ListFilesRawEntry ==
  /\ call.op = "list_files_raw" /\ Iterating /\ lines # <<>>
  /\ LET dec == Decode(Head(lines)) IN
     /\ dec.kind = "entry"
     /\ yielded' = IF ListFilesRawKeeps(call.filters, dec.entry)
                   THEN Append(yielded, dec.entry) ELSE yielded
  /\ lines' = Tail(lines)
  /\ pc' = "iterating"
  /\ UNCHANGED << device, call, dirs_to_scan, current_dir, response, requests,
                  result >>

\* The lines are used up: the sequence ends.
Exhausted ==
  /\ Flat /\ Iterating /\ lines = <<>>
  /\ pc' = "done"
  /\ UNCHANGED << device, call, dirs_to_scan, current_dir, lines, response,
                  requests, yielded, result >>

(***************************************************************************)
(* list_files_recursive                                                    *)
(***************************************************************************)

\* Lines 34-35: remote_dir with a leading slash.
NormalizeRemoteDir(remote_dir) ==
  IF ~StartsWithSlash(remote_dir) THEN SLASH \o remote_dir ELSE remote_dir

\* A stack in place of the queue: dirs_to_scan.pop().
PopLast(queue) ==
  [item |-> queue[Len(queue)], rest |-> SubSeq(queue, 1, Len(queue) - 1)]

\* dirs_to_scan.pop(0): the element taken and the list left.
Pop0(queue) == [item |-> Head(queue), rest |-> Tail(queue)]

\* Line 44: the path enqueued for a directory entry.
SubdirPath(fileinfo) ==
  IF StartsWithSlash(fileinfo.path) THEN fileinfo.path
  ELSE SLASH \o fileinfo.path

\* Lines 48-56: the record of a file entry, as it is handed to the filters.
NormalizeFile(fileinfo) ==
  IF fileinfo.directory # <<>> /\ ~StartsWithSlash(fileinfo.directory)
  THEN FileInfo(SLASH \o fileinfo.directory,
                fileinfo.filename,
                IF ~StartsWithSlash(fileinfo.path)
                THEN SLASH \o fileinfo.path ELSE fileinfo.path,
                fileinfo.size, fileinfo.attribute, fileinfo.datetime)
  ELSE fileinfo

\* Line 57: whether a file entry is yielded.
RecursiveKeeps(filters, fileinfo) == PassesAll(filters, fileinfo)

\* The first advance of the generator: lines 34-36.
Start ==
  /\ Recursive /\ pc = "created"
  /\ dirs_to_scan' = << NormalizeRemoteDir(call.remote_dir) >>
  /\ pc' = "while"
  /\ UNCHANGED << device, call, current_dir, lines, response, requests,
                  yielded, result >>

\* Lines 37-40: the queue is not empty; its first directory is requested.
ScanNext ==
  /\ Recursive /\ pc = "while" /\ dirs_to_scan # <<>>
  /\ current_dir' = Pop0(dirs_to_scan).item
  /\ dirs_to_scan' = Pop0(dirs_to_scan).rest
  /\ requests' = Append(requests, Request("list_files", current_dir'))
  /\ response' = ListingText(device, current_dir')
  /\ lines' = Split(response', CRLF)
  /\ pc' = "for"
  /\ UNCHANGED << device, call, yielded, result >>

\* The filters asked of directory entries too: one that fails is dropped.
EnqueueDirFiltered ==
  /\ Recursive /\ Iterating /\ lines # <<>>
  /\ LET dec == Decode(Head(lines)) IN
     /\ dec.kind = "entry"
     /\ dec.entry.attribute.directly
     /\ dirs_to_scan' = IF PassesAll(call.filters, dec.entry)
                        THEN Append(dirs_to_scan, SubdirPath(dec.entry))
                        ELSE dirs_to_scan
  /\ lines' = Tail(lines)
  /\ UNCHANGED << device, call, pc, current_dir, response, requests, yielded,
                  result >>

\* Lines 42-45: a directory entry is enqueued.
EnqueueDir ==
  /\ Recursive /\ Iterating /\ lines # <<>>
  /\ LET dec == Decode(Head(lines)) IN
     /\ dec.kind = "entry"
     /\ dec.entry.attribute.directly
     /\ dirs_to_scan' = Append(dirs_to_scan, SubdirPath(dec.entry))
  /\ lines' = Tail(lines)
  /\ UNCHANGED << device, call, pc, current_dir, response, requests, yielded,
                  result >>

\* Lines 46-58: a file entry is normalized, filtered and perhaps yielded.
FileEntry ==
  /\ Recursive /\ Iterating /\ lines # <<>>
  /\ LET dec == Decode(Head(lines)) IN
     /\ dec.kind = "entry"
     /\ ~dec.entry.attribute.directly
     /\ yielded' = IF RecursiveKeeps(call.filters, NormalizeFile(dec.entry))
                   THEN Append(yielded, NormalizeFile(dec.entry))
                   ELSE yielded
  /\ lines' = Tail(lines)
  /\ UNCHANGED << device, call, pc, dirs_to_scan, current_dir, response,
                  requests, result >>

\* The for loop is over: back to the while condition.
EndFor ==
  /\ Recursive /\ Iterating /\ lines = <<>>
  /\ pc' = "while"
  /\ UNCHANGED << device, call, dirs_to_scan, current_dir, lines, response,
                  requests, yielded, result >>

\* Line 37: the queue is empty; the generator returns.
Finish ==
  /\ Recursive /\ pc = "while" /\ dirs_to_scan = <<>>
  /\ pc' = "done"
  /\ UNCHANGED << device, call, dirs_to_scan, current_dir, lines, response,
                  requests, yielded, result >>

(***************************************************************************)
(* Scalar status queries and the direct use of _decode_time                *)
(***************************************************************************)

\* The try without its except clause, and truth in place of == 1.
MemoryChangedTruthy(text) ==
  LET n == ParseInt(text) IN
  IF n.ok THEN Returned(n.val # 0)
  ELSE Raised("ValueError", "invalid literal for int()")

\* Lines 80-84: the value of memory_changed for a response text.
MemoryChangedOf(text) ==
  LET n == ParseInt(text) IN
  IF n.ok THEN Returned(n.val = 1)
  ELSE Raised("IOError", "Likely no FlashAir connection")

RECURSIVE FirstMode(_, _)
FirstMode(modes, value) ==
  IF modes = <<>> THEN NoMode
  ELSE IF Head(modes).value = value THEN Head(modes)
  ELSE FirstMode(Tail(modes), value)

\* The lookup over list(WifiMode) alone.
GetWifiModeCurrentOnly(text) ==
  LET n == ParseInt(text) IN
  IF ~n.ok THEN Raised("ValueError", "invalid literal for int()")
  ELSE IF FirstMode(WifiMode, n.val) # NoMode
       THEN Returned(FirstMode(WifiMode, n.val))
       ELSE Raised("ValueError", "Uknown mode")

\* Lines 112-117: the value of get_wifi_mode for a response text.
GetWifiModeOf(text) ==
  LET n == ParseInt(text)
      all_modes == WifiMode \o WifiModeOnBoot
  IN IF ~n.ok THEN Raised("ValueError", "invalid literal for int()")
     ELSE IF FirstMode(all_modes, n.val) # NoMode
          THEN Returned(FirstMode(all_modes, n.val))
          ELSE Raised("ValueError", "Uknown mode")

ScalarCall(op) == [NoCall EXCEPT !.op = op]

Outcome(res) == IF res.exc = "" THEN "done" ELSE "raised"

memory_changed ==
  /\ pc = "idle"
  /\ \E text \in ScalarTexts :
       /\ response' = text
       /\ result' = MemoryChangedOf(text)
  /\ call' = ScalarCall("memory_changed")
  /\ requests' = Append(requests, Request("memory_changed", <<>>))
  /\ pc' = Outcome(result')
  /\ UNCHANGED << device, dirs_to_scan, current_dir, lines, yielded >>

get_wifi_mode ==
  /\ pc = "idle"
  /\ \E text \in ScalarTexts :
       /\ response' = text
       /\ result' = GetWifiModeOf(text)
  /\ call' = ScalarCall("get_wifi_mode")
  /\ requests' = Append(requests, Request("get_wifi_mode", <<>>))
  /\ pc' = Outcome(result')
  /\ UNCHANGED << device, dirs_to_scan, current_dir, lines, yielded >>

\* Date codes of the years 1980 .. 1980 + MaxYearCode, every month code and
\* the day codes around the ends of the months.
DateCodes ==
  { y * 512 + m * 32 + dd :
      y \in 0..MaxYearCode, m \in 0..15, dd \in {0, 1, 28, 29, 30, 31} }

TimeCodes ==
  { 0, FatTime(23, 59, 58), FatTime(24, 0, 0), FatTime(0, 60, 0),
    FatTime(0, 0, 60), FatTime(31, 63, 62) }

decode_time(date_val, time_val) ==
  /\ pc = "idle"
  /\ call' = [NoCall EXCEPT !.op = "_decode_time", !.date_val = date_val,
                            !.time_val = time_val]
  /\ LET dt == _decode_time(date_val, time_val) IN
       result' = IF dt.exc = "" THEN Returned(dt.val)
                 ELSE Raised(dt.exc, "out of range")
  /\ pc' = Outcome(result')
  /\ UNCHANGED << device, dirs_to_scan, current_dir, lines, response,
                  requests, yielded >>

(***************************************************************************)
(* Specification                                                           *)
(***************************************************************************)

CallListFiles ==
  \E f \in FilterChoices, dir \in RemoteDirs, url \in Devices :
    list_files(f, dir, url)

CallListFilesRaw ==
  \E f \in FilterChoices, dir \in RemoteDirs, url \in Devices :
    list_files_raw(f, dir, url)

CallListFilesRecursive ==
  \E f \in FilterChoices, dir \in RemoteDirs, url \in Devices :
    list_files_recursive(f, dir, url)

CallDecodeTime ==
  \E date_val \in DateCodes, time_val \in TimeCodes :
    decode_time(date_val, time_val)

\* One advance of the sequence a listing operation returned.
Advance ==
  \/ SkipLine
  \/ RaiseLine
  \/ ListFilesEntry
  \/ ListFilesRawEntry
  \/ Exhausted
  \/ Start
  \/ ScanNext
  \/ EnqueueDir
  \/ FileEntry
  \/ EndFor
  \/ Finish

Next ==
  \/ CallListFiles
  \/ CallListFilesRaw
  \/ CallListFilesRecursive
  \/ memory_changed
  \/ get_wifi_mode
  \/ CallDecodeTime
  \/ Advance

Spec == Init /\ [][Next]_vars

(***************************************************************************)
(* What the card holds, read off its tree (not off the client's decoding)  *)
(***************************************************************************)

IsPrefix(p, q) == Len(p) <= Len(q) /\ SubSeq(q, 1, Len(p)) = p

IsDirNode(n) == (n.attr \div 16) % 2 = 1

NodeParts(n) == Append(n.dir, n.name)

RECURSIVE MapParts(_)
MapParts(nodes) ==
  IF nodes = <<>> THEN <<>>
  ELSE <<NodeParts(Head(nodes))>> \o MapParts(Tail(nodes))

SubDirsOf(fs, parts) ==
  MapParts(SelectSeq(Tree(fs), LAMBDA n : n.dir = parts /\ IsDirNode(n)))

FilesOf(fs, parts) ==
  SelectSeq(Tree(fs), LAMBDA n : n.dir = parts /\ ~IsDirNode(n))

\* The directories below the queued ones, level by level.
RECURSIVE BfsDirs(_, _)
BfsDirs(fs, queue) ==
  IF queue = <<>> THEN <<>>
  ELSE <<Head(queue)>>
         \o BfsDirs(fs, Tail(queue) \o SubDirsOf(fs, Head(queue)))

RECURSIVE FilesOfAll(_, _)
FilesOfAll(fs, dirs) ==
  IF dirs = <<>> THEN <<>>
  ELSE FilesOf(fs, Head(dirs)) \o FilesOfAll(fs, Tail(dirs))

AbsText(parts) == SLASH \o Join(parts, SLASH)

RECURSIVE MapAbsText(_)
MapAbsText(dirs) ==
  IF dirs = <<>> THEN <<>>
  ELSE <<AbsText(Head(dirs))>> \o MapAbsText(Tail(dirs))

\* For the call under way: the directories under remote_dir in breadth-first
\* order, the texts that name them, and the files in them in that order.
TreeDirs == BfsDirs(device.fs, << PathParts(call.remote_dir) >>)
TreeDirTexts == MapAbsText(TreeDirs)
TreeFiles == FilesOfAll(device.fs, TreeDirs)
TreeFileParts == MapParts(TreeFiles)

RequestedDirs == [i \in 1..Len(requests) |-> requests[i].DIR]
YieldedParts == [i \in 1..Len(yielded) |-> PathParts(yielded[i].path)]

IndexIn(seq, x) == CHOOSE i \in 1..Len(seq) : seq[i] = x

\* seq lists members of ref, each once, in the order of ref.
InOrderOf(seq, ref) ==
  /\ \A i \in 1..Len(seq) : \E j \in 1..Len(ref) : ref[j] = seq[i]
  /\ \A i, j \in 1..Len(seq) :
       i < j => IndexIn(ref, seq[i]) < IndexIn(ref, seq[j])

\* The caller's filters, asked of a node of the tree.
NodePasses(filters, n) ==
  \A i \in 1..Len(filters) :
    CASE filters[i] = "reject" -> FALSE
      [] filters[i] = "nonempty" -> n.size > 0
      [] filters[i] = "named_a" -> n.name = NameA

Stopped == pc \in {"done", "raised"}

\* Whether the decoded listing of a directory raises on one of its lines.
ListingRaises(dev, DIR) ==
  \E i \in 1..Len(Split(ListingText(dev, DIR), CRLF)) :
    _split_file_list(Split(ListingText(dev, DIR), CRLF)[i]).kind = "raise"

\* The directory texts up to the first whose listing raises, that one included.
RECURSIVE UpToFirstRaise(_, _)
UpToFirstRaise(dev, texts) ==
  IF texts = <<>> THEN <<>>
  ELSE IF ListingRaises(dev, Head(texts)) THEN <<Head(texts)>>
  ELSE <<Head(texts)>> \o UpToFirstRaise(dev, Tail(texts))

(***************************************************************************)
(* Claims                                                                  *)
(***************************************************************************)

\* C1, on the states: the directories list_files_recursive has requested are
\* an initial part of the breadth-first order of the tree under remote_dir,
\* and the files yielded follow the breadth-first order of the files.  For
\* the root with one file and one subdirectory holding one file, a drained
\* traversal has sent exactly two requests, root then subdirectory, and with
\* no filter has yielded both files, the root's first.
C1_States ==
  Recursive =>
    /\ IsPrefix(RequestedDirs, TreeDirTexts)
    /\ InOrderOf(YieldedParts, TreeFileParts)
    /\ (device.fs = "example" /\ call.remote_dir = SLASH
          /\ device.junk \in {"none", "header", "sevenfields"}) =>
         /\ pc # "raised"
         /\ pc = "done" =>
              /\ RequestedDirs = << SLASH, SLASH \o NameR >>
              /\ call.filters = <<>> =>
                   YieldedParts = << <<NameA>>, <<NameR, NameB>> >>

\* C1, on the steps: the directory requested is the oldest one on the work
\* queue, and a request is sent only when no line of the previous listing is
\* left to process.
C1_Steps ==
  (Recursive /\ requests' # requests) =>
    /\ lines = <<>>
    /\ dirs_to_scan # <<>>
    /\ requests' = Append(requests, Request("list_files", Head(dirs_to_scan)))
    /\ dirs_to_scan' = Tail(dirs_to_scan)

\* C1: list_files_recursive traverses breadth-first with a FIFO work queue.
C1_BreadthFirst == [](C1_States) /\ [][C1_Steps]_vars

\* C1 witness: the two-level tree is drained; its four directories were
\* requested, the second-level one last.
C1_Witness ==
  /\ Recursive /\ pc = "done"
  /\ device.fs = "wide" /\ call.remote_dir = SLASH
  /\ Len(requests) = 4
  /\ Len(yielded) = 3

PassingTreeFiles ==
  SelectSeq(TreeFiles, LAMBDA n : NodePasses(call.filters, n))

\* C2: once list_files_recursive has stopped on a tree, it has returned with
\* its work queue empty, has requested each directory under remote_dir
\* exactly once and has yielded each file that passes the filters exactly
\* once.
C2_CompleteTraversal ==
  (Recursive /\ Stopped) =>
    /\ pc = "done"
    /\ dirs_to_scan = <<>>
    /\ RequestedDirs = TreeDirTexts
    /\ YieldedParts = MapParts(PassingTreeFiles)

\* C3: every file entry list_files_recursive yields has a directory and a
\* path that begin with '/', and so does every path on the work queue.
C3_LeadingSeparator ==
  Recursive =>
    /\ \A i \in 1..Len(yielded) :
         /\ StartsWithSlash(yielded[i].directory)
         /\ StartsWithSlash(yielded[i].path)
    /\ \A i \in 1..Len(dirs_to_scan) : StartsWithSlash(dirs_to_scan[i])

\* C4: _decode_time never raises; for every pair of codes it returns a
\* timestamp whose year is at least 1980, month in 1..12 and day at least 1.
C4_DecodeNeverFails ==
  (call.op = "_decode_time" /\ Stopped) =>
    /\ pc = "done"
    /\ result.val.year >= 1980
    /\ result.val.month \in 1..12
    /\ result.val.day >= 1

ListingOp ==
  call.op \in {"list_files", "list_files_raw", "list_files_recursive"}

ListedNodes == Children(device, call.remote_dir)

KeptNodes ==
  SelectSeq(ListedNodes,
            LAMBDA n : ~IsDirNode(n) /\ NodePasses(call.filters, n))

RECURSIVE NodeNames(_)
NodeNames(nodes) ==
  IF nodes = <<>> THEN <<>>
  ELSE <<Head(nodes).name>> \o NodeNames(Tail(nodes))

YieldedNames == [i \in 1..Len(yielded) |-> yielded[i].filename]

\* C6: once the sequence of list_files has stopped, it has ended without an
\* error and has yielded, in the order of the response, exactly the records
\* that are no directories and pass every filter.
C6_ListFilesSubset ==
  (call.op = "list_files" /\ Stopped) =>
    /\ pc = "done"
    /\ YieldedNames = NodeNames(KeptNodes)

\* The record shape: six comma-separated fields, the last four decimal
\* integers.
MatchesShape(line) ==
  /\ Len(Split(line, COMMA)) = 6
  /\ \A i \in 3..6 : ParseInt(Split(line, COMMA)[i]).ok

C7_Step ==
  (Iterating /\ lines # <<>> /\ ~MatchesShape(Head(lines))) =>
    /\ yielded' = yielded
    /\ pc' # "raised"

\* C7: a line that does not match the record shape is ignored by the decoded
\* and by the raw listing: the step over it yields no entry and raises no
\* error.
C7_MalformedIgnored == [][C7_Step]_vars

\* C8: memory_changed sends one memory-changed request; it returns true for
\* the text "1", false for a text that parses as another integer, and raises
\* IOError, not ValueError, for a text that is no integer.
C8_MemoryChanged ==
  call.op = "memory_changed" =>
    /\ requests = << Request("memory_changed", <<>>) >>
    /\ response = <<"1">> => (pc = "done" /\ result.val = TRUE)
    /\ (ParseInt(response).ok /\ ParseInt(response).val # 1) =>
         (pc = "done" /\ result.val = FALSE)
    /\ ~ParseInt(response).ok =>
         (pc = "raised" /\ result.exc = "IOError")

\* C8 witness: the card answered a text that is no integer and the call
\* raised IOError.
C8_Witness ==
  /\ call.op = "memory_changed" /\ pc = "raised"
  /\ response = <<"x">>
  /\ result.exc = "IOError"

Members ==
  { WifiMode[i] : i \in 1..Len(WifiMode) }
    \cup { WifiModeOnBoot[i] : i \in 1..Len(WifiModeOnBoot) }

\* C9 as stated: the error of an unmatched integer is an invalid-value error
\* (ValueError), and the failure to parse the text is of another kind.
C9_DistinctErrors ==
  (call.op = "get_wifi_mode" /\ pc = "raised") =>
    IF ParseInt(response).ok
    THEN result.exc = "ValueError"
    ELSE result.exc # "ValueError"

\* C9 as amended: get_wifi_mode returns the member of WifiMode and
\* WifiModeOnBoot whose value is the integer parsed; for an integer no member
\* has it raises ValueError "Uknown mode"; for a text that is no integer
\* int() raises, and that failure is a ValueError too, told from the other
\* by its message only.
C9_WifiMode ==
  call.op = "get_wifi_mode" =>
    LET n == ParseInt(response) IN
    /\ requests = << Request("get_wifi_mode", <<>>) >>
    /\ (n.ok /\ \E m \in Members : m.value = n.val) =>
         /\ pc = "done"
         /\ result.val \in Members
         /\ result.val.value = n.val
    /\ (n.ok /\ ~\E m \in Members : m.value = n.val) =>
         /\ pc = "raised"
         /\ result.exc = "ValueError"
         /\ result.msg = "Uknown mode"
    /\ ~n.ok =>
         /\ pc = "raised"
         /\ result.exc = "ValueError"
         /\ result.msg # "Uknown mode"

\* C9 witness: the card answered 5 and the boot-time station mode came back.
C9_Witness ==
  /\ call.op = "get_wifi_mode" /\ pc = "done"
  /\ response = <<"5">>
  /\ result.val = Mode("WifiModeOnBoot", "station", 5)

\* C10, on the states: no directory entry is yielded, and a traversal that
\* has stopped has requested the directories that the tree and the card's
\* lines alone determine, whatever the filters.
C10_States ==
  Recursive =>
    /\ \A i \in 1..Len(yielded) : ~yielded[i].attribute.directly
    /\ Stopped =>
         RequestedDirs = UpToFirstRaise(device, TreeDirTexts)

\* C10, on the steps: the step over a file entry, the one that asks the
\* filters, leaves the work queue and the requests as they are; the step
\* over a directory entry enqueues it and yields nothing.
C10_Steps ==
  (Recursive /\ Iterating /\ lines # <<>>
     /\ lines' # lines /\ Decode(Head(lines)).kind = "entry") =>
    IF Decode(Head(lines)).entry.attribute.directly
    THEN /\ Len(dirs_to_scan') = Len(dirs_to_scan) + 1
         /\ yielded' = yielded
    ELSE /\ dirs_to_scan' = dirs_to_scan
         /\ requests' = requests

\* C10: the filters of list_files_recursive never affect the traversal.
C10_FiltersFrame == [](C10_States) /\ [][C10_Steps]_vars

\* C10 witness: with a filter that rejects everything the two-level tree is
\* drained, all four directories requested and nothing yielded.
C10_Witness ==
  /\ Recursive /\ pc = "done"
  /\ call.filters = <<"reject">>
  /\ device.fs = "wide" /\ call.remote_dir = SLASH
  /\ Len(requests) = 4
  /\ yielded = <<>>

====
